---- MODULE Spec2Model ----
(***************************************************************************)
(* Model of the course exporter: exporter/course_export.py (main and the   *)
(* archive / publish pipeline) and exporter/config.py (option              *)
(* normalisation and scope resolution).                                    *)
(*                                                                         *)
(* Strings whose characters matter (course ids, organization ids, file and *)
(* directory names) are sequences of one-character tokens.  A path is a    *)
(* sequence of names.  A Python dict is a function from its keys; dicts    *)
(* that the program shares by reference live in `heap` and are named by    *)
(* their index.                                                            *)
(***************************************************************************)
EXTENDS Naturals, Sequences, FiniteSets, TLC

VARIABLES
    pc,              \* position of main(): the statement that runs next
    courses,         \* main: the list returned by get_courses
    idx,             \* main: index of the course the for loop is at
    fs,              \* the file system: [dirs, files], sets of paths
    config,          \* main: the local `config` (a heap reference, 0 = unbound)
    heap,            \* the dicts shared by reference, by index
    general_config,  \* main: the dict returned by setup(), [values |-> ref]
    log,             \* the calls to run_tasks / archive_directory / publish so far
    uploads,         \* the calls to s3_client.upload_file so far
    err,             \* the exception main() raised, "none" if none
    injected,        \* whether a task, archive or upload step has failed
    scopes,          \* per course processed: its config and kwargs references
    values0,         \* general_config['values'] as setup() returned it
    cfg,             \* config.py: the configuration being built
    cfg0,            \* config.py: the configuration before update_config
    cfg_pc,          \* config.py: "raw", "updated", "resolved"
    org_result,      \* config.py: outcome of get_config_for_org
    sid              \* get_filename_safe_course_id: [id, result, done]

vars ==
    <<pc, courses, idx, fs, config, heap, general_config, log, uploads, err,
      injected, scopes, values0, cfg, cfg0, cfg_pc, org_result, sid>>

mainVars ==
    <<pc, courses, idx, fs, config, heap, general_config, log, uploads, err,
      injected, scopes, values0>>

cfgVars == <<cfg, cfg0, cfg_pc, org_result>>

(***************************************************************************)
(* Bounds of the model.                                                    *)
(***************************************************************************)
MaxIdLen == 5       \* longest course id body drawn for get_filename_safe_course_id
MaxCourses == 2     \* longest course list get_all_courses returns
MaxDepth == 3       \* deepest file of the directory trees that are published
MaxOrgs == 2        \* most organizations in the configuration file

(***************************************************************************)
(* Generic helpers on sequences and dicts.                                 *)
(***************************************************************************)
EmptyDict == <<>>

\* d[k] = v on a dict
DictSet(d, k, v) == [x \in DOMAIN d \cup {k} |-> IF x = k THEN v ELSE d[x]]

\* del d[k]
DictDel(d, k) == [x \in DOMAIN d \ {k} |-> d[x]]

Range(s) == {s[i] : i \in DOMAIN s}

IsPrefix(p, s) == Len(p) <= Len(s) /\ SubSeq(s, 1, Len(p)) = p

\* all sequences over S of length at most n
SeqsUpTo(S, n) == UNION {[1..k -> S] : k \in 0..n}

(***************************************************************************)
(* Characters.  Python 3 `re` on str patterns is Unicode-aware: \w matches *)
(* the ASCII word characters and every non-ASCII letter or digit.          *)
(***************************************************************************)
AsciiLetters == {"A", "B", "c", "o", "u", "r", "s", "e", "v", "z", "i", "p", "t", "m"}

AsciiDigits == {"1"}

\* a non-ASCII letter (e with acute accent) and a non-ASCII digit (Arabic-Indic three)
NonAsciiWord == {"U+00E9", "U+0663"}

\* the characters the comment at course_export.py:205 calls safe
SafeChars == AsciiLetters \cup AsciiDigits \cup {"_", ".", "-"}

\* \w of the pattern at course_export.py:208
IsWordChar(c) == c \in AsciiLetters \cup AsciiDigits \cup {"_"} \cup NonAsciiWord

\* one character of re.sub(r'[^\w\.\-]', replacement_char, filename)
SubChar(c, replacement_char) ==
    IF IsWordChar(c) \/ c \in {".", "-"} THEN c ELSE replacement_char

\* re.sub(r'[^\w\.\-]', replacement_char, filename)
ReSub(filename, replacement_char) ==
    [i \in 1..Len(filename) |-> SubChar(filename[i], replacement_char)]

(***************************************************************************)
(* CourseKey.from_string for the course-v1 namespace: the string is        *)
(* "course-v1:" followed by org+course+run, each part a non-empty run of   *)
(* the characters opaque_keys allows in an id.  Anything else raises       *)
(* InvalidKeyError.                                                        *)
(***************************************************************************)
CourseV1 == <<"c", "o", "u", "r", "s", "e", "-", "v", "1", ":">>

AllowedIdChar(c) == IsWordChar(c) \/ c \in {"-", "~", ".", ":"}

\* positions of "+" in s
PlusAt(s) == {i \in 1..Len(s) : s[i] = "+"}

\* whether CourseKey.from_string(course_id) returns a key
KeyParses(course_id) ==
    /\ IsPrefix(CourseV1, course_id)
    /\ LET body == SubSeq(course_id, Len(CourseV1) + 1, Len(course_id))
       IN  /\ Cardinality(PlusAt(body)) = 2
           /\ \A i \in 1..Len(body) : body[i] = "+" \/ AllowedIdChar(body[i])
           /\ 1 \notin PlusAt(body)
           /\ Len(body) \notin PlusAt(body)
           /\ \A i \in PlusAt(body) : (i + 1) \notin PlusAt(body)

\* the key's org, course and run
KeyParts(course_id) ==
    LET body == SubSeq(course_id, Len(CourseV1) + 1, Len(course_id))
        p1 == CHOOSE i \in PlusAt(body) : \A j \in PlusAt(body) : i <= j
        p2 == CHOOSE i \in PlusAt(body) : \A j \in PlusAt(body) : j <= i
    IN  [org |-> SubSeq(body, 1, p1 - 1),
         course |-> SubSeq(body, p1 + 1, p2 - 1),
         run |-> SubSeq(body, p2 + 1, Len(body))]

\* get_filename_safe_course_id(course_id, replacement_char)
get_filename_safe_course_id(course_id, replacement_char) ==
    LET filename ==
            IF KeyParses(course_id)
            THEN LET k == KeyParts(course_id)
                 IN  k.org \o <<replacement_char>> \o k.course
                       \o <<replacement_char>> \o k.run
            ELSE course_id
    IN  ReSub(filename, replacement_char)

(***************************************************************************)
(* The file system: fs.dirs and fs.files are sets of absolute paths.       *)
(***************************************************************************)
\* every path at or below p
Under(f, p) == {q \in f.dirs \cup f.files : IsPrefix(p, q)}

\* os.mkdir(p) on a path that does not exist yet
MkDir(f, p) == [f EXCEPT !.dirs = @ \cup {p}]

\* a task writing an output file p
WriteFile(f, p) == [f EXCEPT !.files = @ \cup {p}]

\* shutil.rmtree(p)
RmTree(f, p) ==
    [dirs |-> {q \in f.dirs : ~IsPrefix(p, q)},
     files |-> {q \in f.files : ~IsPrefix(p, q)}]

\* os.path.dirname(p) and os.path.basename(p)
DirName(p) == SubSeq(p, 1, Len(p) - 1)

BaseName(p) == p[Len(p)]

\* the names os.listdir(p) returns, for a directory p
ListDir(f, p) ==
    {q[Len(q)] : q \in {r \in f.dirs \cup f.files : Len(r) = Len(p) + 1 /\ IsPrefix(p, r)}}

\* os.listdir returns the names in an order of the platform's choosing; the
\* walk below visits them in one fixed order
RECURSIVE SetToSeq(_)
SetToSeq(S) ==
    IF S = {} THEN <<>>
    ELSE LET x == CHOOSE y \in S : TRUE IN <<x>> \o SetToSeq(S \ {x})

\* str(datetime.date.today())
Today == <<"1", "-", "1">>

ZipSuffix == <<".", "z", "i", "p">>

(***************************************************************************)
(* upload_file and upload_files_or_dir.  A call to s3_client.upload_file   *)
(* is recorded as [filepath, bucket, key]; the key                         *)
(* '{prefix}_{org}/{date}/{name}' is kept as its four fields, `name` being *)
(* the sequence of names os.path.join built.  `sub_directory` is a name,   *)
(* or <<>> for None.                                                       *)
(***************************************************************************)
upload_file(cd, filepath, filename) ==
    [filepath |-> filepath,
     bucket |-> cd["output_bucket"],
     key |-> [prefix |-> cd["organization"],
              org |-> cd["organization"],
              date |-> Today,
              name |-> filename]]

\* the regular files of the tree rooted at `root`, as paths relative to it
RelativeFiles(f, root) ==
    {SubSeq(q, Len(root) + 1, Len(q)) : q \in {r \in f.files : IsPrefix(root, r)}}

RECURSIVE upload_files_or_dir(_, _, _, _)
RECURSIVE UploadEntries(_, _, _, _, _, _)

\* the for loop of lines 147-155 over the listing `names` of `parent`
UploadEntries(cd, f, results_directory, sub_directory, parent, names) ==
    IF names = <<>> THEN [calls |-> <<>>, err |-> "none"]
    ELSE LET filename == Head(names)
             filepath == parent \o <<filename>>
             first ==
                 IF filepath \in f.dirs
                 THEN upload_files_or_dir(cd, f, results_directory, filename)
                 ELSE [calls |->
                           <<upload_file(cd, filepath,
                                 IF sub_directory # <<>>
                                 THEN <<sub_directory, filename>>
                                 ELSE <<filename>>)>>,
                       err |-> "none"]
         IN  IF first.err # "none" THEN first
             ELSE LET rest == UploadEntries(cd, f, results_directory,
                                            sub_directory, parent, Tail(names))
                  IN  [calls |-> first.calls \o rest.calls, err |-> rest.err]

\* upload_files_or_dir(config, results_directory, sub_directory): the calls to
\* upload_file it makes, in order, and the exception that ends it ("none" if
\* it returns)
upload_files_or_dir(cd, f, results_directory, sub_directory) ==
    LET parent ==
            IF sub_directory # <<>>
            THEN results_directory \o <<sub_directory>>
            ELSE results_directory
    IN  IF parent \notin f.dirs
        THEN [calls |-> <<>>, err |-> "FileNotFoundError"]
        ELSE UploadEntries(cd, f, results_directory, sub_directory, parent,
                           SetToSeq(ListDir(f, parent)))

\* archive_directory without the shutil.rmtree of line 118
archive_directory_keep_tree(f, directory) ==
    LET root_dir == DirName(directory)
        base_dir == BaseName(directory)
    IN  [fs |-> WriteFile(f, root_dir \o <<base_dir \o ZipSuffix>>),
         root_dir |-> root_dir]

\* archive_directory(directory): the zip archive is written next to the
\* directory, the directory tree is removed, the parent directory is returned
archive_directory(f, directory) ==
    LET root_dir == DirName(directory)
        base_dir == BaseName(directory)
        zipped == WriteFile(f, root_dir \o <<base_dir \o ZipSuffix>>)
    IN  [fs |-> RmTree(zipped, directory), root_dir |-> root_dir]

(***************************************************************************)
(* Dicts shared by reference.  merge(a, b) of exporter.util returns a new  *)
(* dict holding a's items overridden by b's (a shallow union); here a is   *)
(* named by its reference and the result is allocated on the heap.         *)
(***************************************************************************)
\* the items of merge(a, b): shallow, b wins
MergeItems(a, b) ==
    [k \in DOMAIN a \cup DOMAIN b |-> IF k \in DOMAIN b THEN b[k] ELSE a[k]]

merge(h, ref, b) ==
    [heap |-> Append(h, MergeItems(h[ref], b)), ref |-> Len(h) + 1]

\* d[k] = v on the dict that `ref` names
Store(h, ref, k, v) == [h EXCEPT ![ref] = DictSet(@, k, v)]

\* get_config_for_course with the copy left out: the course is written into
\* config['values'] itself
get_config_for_course_nocopy(h, gc, course) ==
    [heap |-> Store(h, gc["values"], "course", course), ref |-> gc["values"]]

\* get_config_for_course(config, course)
get_config_for_course(h, gc, course) ==
    LET m == merge(h, gc["values"], EmptyDict)
    IN  [heap |-> Store(m.heap, m.ref, "course", course), ref |-> m.ref]

\* lines 93-95 of export_org_data: the kwargs handed to run_tasks
export_org_kwargs(h, gc, crs, destination) ==
    LET m == merge(h, gc["values"], EmptyDict)
        h1 == Store(m.heap, m.ref, "courses", crs)
    IN  [heap |-> Store(h1, m.ref, "work_dir", destination), ref |-> m.ref]

\* lines 128-129 of export_course_data: the kwargs handed to run_tasks
export_course_kwargs(h, cref, destination) ==
    LET m == merge(h, cref, EmptyDict)
    IN  [heap |-> Store(m.heap, m.ref, "work_dir", destination), ref |-> m.ref]

\* get_courses: line 104 builds the kwargs for get_all_courses
get_courses_kwargs(h, gc) == merge(h, gc["values"], EmptyDict)

(***************************************************************************)
(* run_tasks of exporter.main: the selected tasks run in order with the    *)
(* scoped kwargs; a recoverable failure is absorbed, a fatal one ends the  *)
(* call with FatalTaskError.  A run that returns has written its output    *)
(* under kwargs['work_dir'].                                               *)
(***************************************************************************)
OutputName == <<"o", "u", "t">>

run_tasks(f, kwargs, outcome) ==
    IF outcome = "ok"
    THEN [fs |-> WriteFile(f, kwargs["work_dir"] \o <<OutputName>>), raised |-> FALSE]
    ELSE [fs |-> f, raised |-> TRUE]

(***************************************************************************)
(* make_org_directory: the temporary directory and the working directory   *)
(* inside it.                                                              *)
(***************************************************************************)
\* the random part of the name tempfile.mkdtemp picks
RandomSuffix == <<"z">>

\* make_temp_directory(prefix='{org}_', directory=org_dir): the path created
TempDir(values) ==
    values["work_dir"] \o <<values["organization"] \o <<"_">> \o RandomSuffix>>

\* '{name}-{date}' joined to the temporary directory
OrgDir(values) ==
    TempDir(values) \o <<values["organization"] \o <<"-">> \o Today>>

\* entering the with block: mkdtemp, then os.mkdir(org_dir)
make_org_directory_enter(f, values) ==
    MkDir(MkDir(f, TempDir(values)), OrgDir(values))

\* make_temp_directory of exporter.util leaving its block: the temporary
\* directory is removed with everything in it
make_temp_directory_exit(f, temp_dir) == RmTree(f, temp_dir)

\* leaving the with block of make_org_directory, normally or by an exception
make_org_directory_exit(f, values) == make_temp_directory_exit(f, TempDir(values))

(***************************************************************************)
(* main(): the inputs.                                                     *)
(***************************************************************************)
\* tempfile.gettempdir(), the default of --work-dir
WorkDir == <<<<"t", "m", "p">>>>

Organizations == {<<"A">>, <<"B">>}

Bucket == <<"B", "u", "c">>

\* course ids the platform can return.  The first two are distinct valid keys
\* (org A, course A_A, run A and org A_A, course A, run A).
CourseA == CourseV1 \o <<"A", "+", "A", "_", "A", "+", "A">>

CourseB == CourseV1 \o <<"A", "_", "A", "+", "A", "+", "A">>

CourseC == CourseV1 \o <<"B", "+", "A", "+", "A">>

CourseIds == {CourseA, CourseB, CourseC}

\* get_all_courses returns each course once
CourseLists ==
    {cs \in SeqsUpTo(CourseIds, MaxCourses) :
        \A i, j \in DOMAIN cs : i # j => cs[i] # cs[j]}

\* config['values'] as setup() leaves it: every option of the usage text is a
\* key; the ones main() reads are kept, `tasks` is there when update_tasks set it
InitialValues ==
    {[work_dir |-> WorkDir, organization |-> o, output_bucket |-> Bucket] :
        o \in Organizations}
    \cup
    {[work_dir |-> WorkDir, organization |-> o, output_bucket |-> Bucket,
      tasks |-> <<"T1">>] : o \in Organizations}

\* what `with make_org_directory(general_config) as temp_directory` binds
temp_directory == OrgDir(values0)

\* an exception leaves main() through the with block
Raise(e, f) ==
    /\ pc' = "raised"
    /\ err' = e
    /\ fs' = make_org_directory_exit(f, values0)

LogEntry(op, course, outcome) == [op |-> op, course |-> course, outcome |-> outcome]

(***************************************************************************)
(* main(): one action per statement.                                       *)
(***************************************************************************)
\* general_config = setup(__doc__)
InitMain ==
    /\ pc = "get_courses"
    /\ courses = <<>>
    /\ idx = 1
    /\ fs = [dirs |-> {<<>>, WorkDir}, files |-> {}]
    /\ config = 0
    /\ values0 \in InitialValues
    /\ heap = <<values0>>
    /\ general_config = ("values" :> 1)
    /\ log = <<>>
    /\ uploads = <<>>
    /\ err = "none"
    /\ injected = FALSE
    /\ scopes = <<>>

\* courses = get_courses(general_config)
GetCourses ==
    /\ pc = "get_courses"
    /\ \E cs \in CourseLists : courses' = cs
    /\ heap' = get_courses_kwargs(heap, general_config).heap
    /\ pc' = "make_org_directory"
    /\ UNCHANGED <<idx, fs, config, general_config, log, uploads, err, injected,
                   scopes, values0>>
    /\ UNCHANGED <<cfgVars, sid>>

\* with make_org_directory(general_config) as temp_directory
MakeOrgDirectory ==
    /\ pc = "make_org_directory"
    /\ fs' = make_org_directory_enter(fs, heap[general_config["values"]])
    /\ pc' = "export_org_data"
    /\ UNCHANGED <<courses, idx, config, heap, general_config, log, uploads, err,
                   injected, scopes, values0>>
    /\ UNCHANGED <<cfgVars, sid>>

\* export_org_data(general_config, courses, temp_directory)
ExportOrgData ==
    /\ pc = "export_org_data"
    /\ \E outcome \in {"ok", "fatal"} :
         LET k == export_org_kwargs(heap, general_config, courses, temp_directory)
             r == run_tasks(fs, k.heap[k.ref], outcome)
         IN  /\ heap' = k.heap
             /\ log' = Append(log, LogEntry("org_tasks", 0, outcome))
             /\ IF r.raised
                THEN Raise("FatalTaskError", r.fs) /\ injected' = TRUE
                ELSE /\ fs' = r.fs
                     /\ pc' = "loop"
                     /\ UNCHANGED <<err, injected>>
    /\ UNCHANGED <<courses, idx, config, general_config, uploads, scopes, values0>>
    /\ UNCHANGED <<cfgVars, sid>>

\* lines 82-85: the loop takes the next course, builds its config and makes
\* its directory
CourseSetup ==
    /\ pc = "loop"
    /\ idx <= Len(courses)
    /\ LET course == courses[idx]
           c == get_config_for_course(heap, general_config, course)
           course_directory ==
               temp_directory \o <<get_filename_safe_course_id(course, "_")>>
       IN  /\ heap' = c.heap
           /\ config' = c.ref
           /\ scopes' = Append(scopes, [course |-> course, dir |-> course_directory,
                                        config |-> c.ref, kwargs |-> 0])
           /\ IF course_directory \in fs.dirs \cup fs.files
              THEN Raise("FileExistsError", fs)
              ELSE /\ fs' = MkDir(fs, course_directory)
                   /\ pc' = "export_course_data"
                   /\ UNCHANGED err
    /\ UNCHANGED <<courses, idx, general_config, log, uploads, injected, values0>>
    /\ UNCHANGED <<cfgVars, sid>>

\* line 86 with a handler around it that logs a fatal failure and goes on
ExportCourseData_swallow ==
    /\ pc = "export_course_data"
    /\ \E outcome \in {"ok", "fatal"} :
         LET k == export_course_kwargs(heap, config, scopes[idx].dir)
             r == run_tasks(fs, k.heap[k.ref], outcome)
         IN  /\ heap' = k.heap
             /\ scopes' = [scopes EXCEPT ![idx].kwargs = k.ref]
             /\ log' = Append(log, LogEntry("course_tasks", idx, outcome))
             /\ fs' = r.fs
             /\ idx' = idx + 1
             /\ pc' = "loop"
             /\ injected' = (injected \/ r.raised)
             /\ UNCHANGED err
    /\ UNCHANGED <<courses, config, general_config, uploads, values0>>
    /\ UNCHANGED <<cfgVars, sid>>

\* results = export_course_data(config, course_directory)
ExportCourseData ==
    /\ pc = "export_course_data"
    /\ \E outcome \in {"ok", "fatal"} :
         LET k == export_course_kwargs(heap, config, scopes[idx].dir)
             r == run_tasks(fs, k.heap[k.ref], outcome)
         IN  /\ heap' = k.heap
             /\ scopes' = [scopes EXCEPT ![idx].kwargs = k.ref]
             /\ log' = Append(log, LogEntry("course_tasks", idx, outcome))
             /\ IF r.raised
                THEN /\ Raise("FatalTaskError", r.fs)
                     /\ injected' = TRUE
                     /\ UNCHANGED idx
                ELSE /\ fs' = r.fs
                     /\ idx' = idx + 1
                     /\ pc' = "loop"
                     /\ UNCHANGED <<err, injected>>
    /\ UNCHANGED <<courses, config, general_config, uploads, values0>>
    /\ UNCHANGED <<cfgVars, sid>>

\* root_dir = archive_directory(temp_directory), after the last course
ArchiveDirectory ==
    /\ pc = "loop"
    /\ idx > Len(courses)
    /\ \E outcome \in {"ok", "fail"} :
         /\ log' = Append(log, LogEntry("archive", 0, outcome))
         /\ IF outcome = "ok"
            THEN /\ fs' = archive_directory(fs, temp_directory).fs
                 /\ pc' = "publish"
                 /\ UNCHANGED <<err, injected>>
            ELSE Raise("ArchiveError", fs) /\ injected' = TRUE
    /\ UNCHANGED <<courses, idx, config, heap, general_config, uploads, scopes,
                   values0>>
    /\ UNCHANGED <<cfgVars, sid>>

\* upload_files_or_dir(config, root_dir), then the with block is left.  Each
\* s3_client.upload_file may fail: n is the number of uploads that succeed.
UploadFilesOrDir ==
    /\ pc = "publish"
    /\ IF config = 0
       THEN /\ Raise("UnboundLocalError", fs)
            /\ UNCHANGED <<log, uploads, injected>>
       ELSE LET r == upload_files_or_dir(heap[config], fs, DirName(temp_directory), <<>>)
            IN  \E n \in 0..Len(r.calls) :
                  /\ uploads' = uploads \o SubSeq(r.calls, 1, n)
                  /\ IF n < Len(r.calls)
                     THEN /\ Raise("UploadError", fs)
                          /\ injected' = TRUE
                          /\ log' = Append(log, LogEntry("publish", 0, "fail"))
                     ELSE IF r.err # "none"
                     THEN /\ Raise(r.err, fs)
                          /\ UNCHANGED injected
                          /\ log' = Append(log, LogEntry("publish", 0, r.err))
                     ELSE /\ pc' = "done"
                          /\ fs' = make_org_directory_exit(fs, values0)
                          /\ log' = Append(log, LogEntry("publish", 0, "ok"))
                          /\ UNCHANGED <<err, injected>>
    /\ UNCHANGED <<courses, idx, config, heap, general_config, scopes, values0>>
    /\ UNCHANGED <<cfgVars, sid>>

\* the variables of the other specifications, at rest
ConfigIdle ==
    /\ cfg = EmptyDict
    /\ cfg0 = EmptyDict
    /\ cfg_pc = "idle"
    /\ org_result = EmptyDict

SafeIdIdle == sid = [id |-> <<>>, result |-> <<>>, done |-> FALSE]

Init == InitMain /\ ConfigIdle /\ SafeIdIdle

Next ==
    \/ GetCourses
    \/ MakeOrgDirectory
    \/ ExportOrgData
    \/ CourseSetup
    \/ ExportCourseData
    \/ ArchiveDirectory
    \/ UploadFilesOrDir

Spec == Init /\ [][Next]_vars

(***************************************************************************)
(* Properties of main().                                                   *)
(***************************************************************************)
\* the zip archive archive_directory writes for the run
ArchivePath == DirName(temp_directory) \o <<BaseName(temp_directory) \o ZipSuffix>>

\* C1: once run_tasks has signalled a fatal failure (in the organization-level
\* export or in a course's export), nothing runs after it: no later run_tasks,
\* no archive_directory, no upload_file, and main() has raised FatalTaskError
\* to its caller.
C1_FatalFailureAbortsRun ==
    \A k \in DOMAIN log :
        log[k].outcome = "fatal" =>
            /\ k = Len(log)
            /\ uploads = <<>>
            /\ pc = "raised"
            /\ err = "FatalTaskError"

\* a course's tasks failed fatally while a later course was still to come
C1_Witness ==
    /\ pc = "raised"
    /\ err = "FatalTaskError"
    /\ log # <<>>
    /\ log[Len(log)].op = "course_tasks"
    /\ idx < Len(courses)

\* C6: across the run the base configuration and its `values` dict stay as
\* setup() returned them; every course's config is a dict of its own that holds
\* that course's id, no `courses` entry and the base work_dir; and the kwargs
\* of a course's export are again a dict of their own, holding that course's
\* directory as work_dir.
C6_ScopingNeverMutatesParent ==
    /\ general_config = ("values" :> 1)
    /\ heap[general_config["values"]] = values0
    /\ \A i \in DOMAIN scopes :
         LET s == scopes[i]
             c == heap[s.config]
         IN  /\ s.config # general_config["values"]
             /\ c["course"] = s.course
             /\ "courses" \notin DOMAIN c
             /\ c["work_dir"] = values0["work_dir"]
             /\ s.kwargs # 0 =>
                  /\ s.kwargs # s.config
                  /\ heap[s.kwargs]["work_dir"] = s.dir
                  /\ heap[s.kwargs]["course"] = s.course
             /\ \A j \in DOMAIN scopes :
                  j # i => /\ scopes[j].config # s.config
                           /\ scopes[j].kwargs \notin {s.config, general_config["values"]}
                           /\ s.kwargs # 0 => scopes[j].kwargs # s.kwargs

\* a run over two courses completed
C6_Witness ==
    /\ pc = "done"
    /\ Len(scopes) >= 2
    /\ \A i \in DOMAIN scopes : scopes[i].kwargs # 0

\* C7: when main() has returned or raised, nothing is left at or below the
\* working directory; when the publish step starts, the zip archive lies next
\* to the working directory and the working directory tree is gone, and no
\* upload happens before that.
C7_WorkingDirectoryRemoved ==
    /\ pc \in {"done", "raised"} => Under(fs, temp_directory) = {}
    /\ pc = "publish" =>
         /\ ArchivePath \in fs.files
         /\ DirName(ArchivePath) = DirName(temp_directory)
         /\ Under(fs, temp_directory) = {}
    /\ pc \notin {"publish", "done", "raised"} => uploads = <<>>

\* main() raised out of a course's export, after directories were made
C7_Witness ==
    /\ pc = "raised"
    /\ err = "FatalTaskError"
    /\ Len(scopes) >= 1

\* what a run without failures is to log: the organization-level tasks, each
\* course's tasks in course-list order, one archive, one publish
ExpectedLog ==
    <<LogEntry("org_tasks", 0, "ok")>>
      \o [i \in 1..Len(courses) |-> LogEntry("course_tasks", i, "ok")]
      \o <<LogEntry("archive", 0, "ok"), LogEntry("publish", 0, "ok")>>

\* C9: a run in which no task, archive or upload step fails ends by main()
\* returning, having run the organization-level tasks, then each course's
\* tasks in order, then one archive_directory, then the publish step, for
\* every course list, the empty one included.
C9_SuccessfulRunCompletes ==
    (pc \in {"done", "raised"} /\ ~injected) => (pc = "done" /\ log = ExpectedLog)

\* C10: the directories os.mkdir is asked to make for the courses of one run
\* are pairwise distinct, so no os.mkdir targets a directory that exists.
C10_CourseDirectoriesDistinct ==
    /\ \A i, j \in DOMAIN scopes : i # j => scopes[i].dir # scopes[j].dir
    /\ err # "FileExistsError"

(***************************************************************************)
(* get_filename_safe_course_id on its own: the id is drawn from the        *)
(* strings over a small alphabet, with and without the course-v1 prefix.   *)
(***************************************************************************)
IdAlphabet == {"A", "_", "+", "!", "U+00E9"}

IdBodies == SeqsUpTo(IdAlphabet, MaxIdLen)

InputIds == IdBodies \cup {CourseV1 \o b : b \in IdBodies}

\* the variables of main(), at rest
MainIdle ==
    /\ pc = "idle"
    /\ courses = <<>>
    /\ idx = 1
    /\ fs = [dirs |-> {<<>>, WorkDir}, files |-> {}]
    /\ config = 0
    /\ values0 = [work_dir |-> WorkDir, organization |-> <<"A">>,
                  output_bucket |-> Bucket]
    /\ heap = <<values0>>
    /\ general_config = ("values" :> 1)
    /\ log = <<>>
    /\ uploads = <<>>
    /\ err = "none"
    /\ injected = FALSE
    /\ scopes = <<>>

InitSafeId ==
    /\ sid \in {[id |-> c, result |-> <<>>, done |-> FALSE] : c \in InputIds}
    /\ MainIdle
    /\ ConfigIdle

\* result = get_filename_safe_course_id(course_id)
SafeId ==
    /\ ~sid.done
    /\ sid' = [sid EXCEPT !.result = get_filename_safe_course_id(sid.id, "_"),
                          !.done = TRUE]
    /\ UNCHANGED <<mainVars, cfgVars>>

NextSafeId == SafeId

SpecSafeId == InitSafeId /\ [][NextSafeId]_vars

\* the name the function is documented to return: org, course and run joined
\* by the separator for a key that parses, the raw id otherwise, with every
\* character outside A-Z a-z 0-9 _ . - replaced by the separator
DocumentedSafeId(course_id, replacement_char) ==
    LET filename ==
            IF KeyParses(course_id)
            THEN LET k == KeyParts(course_id)
                 IN  k.org \o <<replacement_char>> \o k.course
                       \o <<replacement_char>> \o k.run
            ELSE course_id
    IN  [i \in 1..Len(filename) |->
            IF filename[i] \in SafeChars THEN filename[i] ELSE replacement_char]

\* C8: for every id, get_filename_safe_course_id returns a string all of whose
\* characters are in A-Z a-z 0-9 _ . -, every other character of the id (or of
\* org_course_run when the id parses) having been replaced by the separator.
C8_SafeIdAlphabet ==
    sid.done =>
        /\ \A i \in DOMAIN sid.result : sid.result[i] \in SafeChars
        /\ sid.result = DocumentedSafeId(sid.id, "_")

(***************************************************************************)
(* upload_files_or_dir on its own: the archive root holds any tree of      *)
(* files below the directories sub, sub/deeper, sub/deeper/inner, ...      *)
(***************************************************************************)
DirOrder == <<<<"s", "u", "B">>, <<"e", "e", "p">>, <<"i", "p">>>>

FileName == <<"A", ".", "t">>

\* the directory chains: names of DirOrder, nested in that order, at most
\* MaxDepth deep
Chain(S) ==
    LET F[k \in 0..Len(DirOrder)] ==
            IF k = 0 THEN <<>>
            ELSE IF k \in S THEN F[k - 1] \o <<DirOrder[k]>> ELSE F[k - 1]
    IN  F[Len(DirOrder)]

Chains == {Chain(S) : S \in {T \in SUBSET DOMAIN DirOrder : Cardinality(T) <= MaxDepth}}

\* the archive root of the trees that are published
TreeRoot == TempDir(values0)

\* the file system holding the files of `chains`, one per chain
TreeFs(root, chains) ==
    [dirs |-> {<<>>, WorkDir, root}
                \cup UNION {{root \o SubSeq(c, 1, n) : n \in 1..Len(c)} : c \in chains},
     files |-> {root \o c \o <<FileName>> : c \in chains}]

InitUpload ==
    /\ pc = "publish"
    /\ courses = <<CourseC>>
    /\ idx = 2
    /\ values0 \in InitialValues
    /\ \E chains \in SUBSET Chains : fs = TreeFs(TreeRoot, chains)
    /\ general_config = ("values" :> 1)
    /\ LET c == get_config_for_course(<<values0>>, general_config, CourseC)
       IN  heap = c.heap /\ config = c.ref
    /\ log = <<>>
    /\ uploads = <<>>
    /\ err = "none"
    /\ injected = FALSE
    /\ scopes = <<>>
    /\ ConfigIdle
    /\ SafeIdIdle

\* upload_files_or_dir(config, root_dir) on the tree; n uploads succeed
PublishTree ==
    /\ pc = "publish"
    /\ LET r == upload_files_or_dir(heap[config], fs, TreeRoot, <<>>)
       IN  \E n \in 0..Len(r.calls) :
             /\ uploads' = SubSeq(r.calls, 1, n)
             /\ IF n < Len(r.calls)
                THEN pc' = "raised" /\ err' = "UploadError" /\ injected' = TRUE
                ELSE IF r.err # "none"
                THEN pc' = "raised" /\ err' = r.err /\ UNCHANGED injected
                ELSE pc' = "published" /\ UNCHANGED <<err, injected>>
    /\ UNCHANGED <<courses, idx, fs, config, heap, general_config, log, scopes,
                   values0, cfgVars, sid>>

NextUpload == PublishTree

SpecUpload == InitUpload /\ [][NextUpload]_vars

\* C2: when no upload fails, upload_files_or_dir returns having called
\* upload_file exactly once for each regular file of the tree, with the file's
\* path relative to the archive root as the name part of the key, under the
\* scope prefix and today's date.
C2_EveryFileUploadedOnce ==
    (pc \in {"published", "raised"} /\ ~injected) =>
        /\ pc = "published"
        /\ Len(uploads) = Cardinality(RelativeFiles(fs, TreeRoot))
        /\ \A q \in RelativeFiles(fs, TreeRoot) :
             \E i \in DOMAIN uploads :
                 /\ uploads[i].filepath = TreeRoot \o q
                 /\ uploads[i].key.name = q
                 /\ uploads[i].key.date = Today
                 /\ uploads[i].key.org = values0["organization"]

(***************************************************************************)
(* exporter/config.py.  The configuration is a dict with the keys          *)
(* `values`, `environments` and, when the configuration file names         *)
(* organizations, `organizations`.  The organizations dict keeps its       *)
(* insertion order: it is a sequence of [key, settings] with distinct keys.*)
(***************************************************************************)
\* str.lower() on one character and on a string
LowerChar(c) ==
    CASE c = "M" -> "m"
      [] c = "X" -> "x"
      [] c = "E" -> "e"
      [] OTHER -> c

Lower(str) == [i \in 1..Len(str) |-> LowerChar(str[i])]

\* k in od, od[k] and od[k] = v on an insertion-ordered dict
OdHas(od, k) == \E i \in DOMAIN od : od[i].key = k

OdGet(od, k) == od[CHOOSE i \in DOMAIN od : od[i].key = k].settings

OdSet(od, k, v) ==
    IF OdHas(od, k)
    THEN [i \in DOMAIN od |-> IF od[i].key = k THEN [key |-> k, settings |-> v] ELSE od[i]]
    ELSE Append(od, [key |-> k, settings |-> v])

\* d.get(k, default)
DictGet(d, k, default) == IF k \in DOMAIN d THEN d[k] ELSE default

\* filter_keys(mapping, keys) of exporter.util: the entries of mapping whose
\* key matches one of keys, letter case ignored; all of mapping when keys is
\* empty or None
filter_keys(mapping, keys) ==
    IF keys = <<>> THEN mapping
    ELSE LET F[n \in 0..Len(mapping)] ==
                 IF n = 0 THEN <<>>
                 ELSE IF \E k \in Range(keys) : Lower(k) = Lower(mapping[n].key)
                      THEN Append(F[n - 1], mapping[n])
                      ELSE F[n - 1]
         IN  F[Len(mapping)]

\* the dict comprehension of lines 76-77: a later key replaces an equal earlier one
LowercasedOrganizations(od) ==
    LET F[n \in 0..Len(od)] ==
            IF n = 0 THEN <<>>
            ELSE OdSet(F[n - 1], Lower(od[n].key), od[n].settings)
    IN  F[Len(od)]

\* update_organizations that selects without lowercasing the keys first
update_organizations_no_lower(c) ==
    LET values == c["values"]
        organizations == filter_keys(c["organizations"], DictGet(values, "org", <<>>))
    IN  DictSet(c, "organizations", organizations)

\* update_organizations(config)
update_organizations(c) ==
    LET values == c["values"]
        organizations ==
            filter_keys(LowercasedOrganizations(c["organizations"]),
                        DictGet(values, "org", <<>>))
    IN  DictSet(c, "organizations", organizations)

\* update_tasks that looks at the plural key first
update_tasks_plural_first(c) ==
    LET values == c["values"]
        plural == DictGet(values, "tasks", <<>>)
        tasks == IF plural # <<>> THEN plural ELSE DictGet(values, "task", <<>>)
        v1 == IF "task" \in DOMAIN values THEN DictDel(values, "task") ELSE values
        v2 == IF tasks # <<>> THEN DictSet(v1, "tasks", tasks) ELSE v1
    IN  DictSet(c, "values", v2)

\* update_tasks(config); `x or y` is y when x is empty
update_tasks(c) ==
    LET values == c["values"]
        singular == DictGet(values, "task", <<>>)
        tasks == IF singular # <<>> THEN singular ELSE DictGet(values, "tasks", <<>>)
        v1 == IF "task" \in DOMAIN values THEN DictDel(values, "task") ELSE values
        v2 == IF tasks # <<>> THEN DictSet(v1, "tasks", tasks) ELSE v1
    IN  DictSet(c, "values", v2)

\* update_config(config, program_options) from line 54 on, config['values']
\* being the options merge_program_options stored
update_config(c) ==
    update_tasks(IF "organizations" \in DOMAIN c THEN update_organizations(c) ELSE c)

\* get_config_for_org with the arguments of merge swapped
get_config_for_org_org_wins(c, organization) ==
    IF "organizations" \notin DOMAIN c \/ ~OdHas(c["organizations"], organization)
    THEN [status |-> "KeyError", org |-> organization, map |-> EmptyDict]
    ELSE LET m == MergeItems(c["values"], OdGet(c["organizations"], organization))
             m1 == DictSet(m, "organization", organization)
         IN  [status |-> "ok", org |-> organization,
              map |-> DictSet(m1, "environments", c["environments"])]

\* get_config_for_org(config, organization): the dict returned, or the
\* KeyError of config['organizations'][organization]
get_config_for_org(c, organization) ==
    IF "organizations" \notin DOMAIN c \/ ~OdHas(c["organizations"], organization)
    THEN [status |-> "KeyError", org |-> organization, map |-> EmptyDict]
    ELSE LET m == MergeItems(OdGet(c["organizations"], organization), c["values"])
             m1 == DictSet(m, "organization", organization)
         IN  [status |-> "ok", org |-> organization,
              map |-> DictSet(m1, "environments", c["environments"])]

(***************************************************************************)
(* The configurations drawn.                                               *)
(***************************************************************************)
OrgNames == {<<"M", "x">>, <<"m", "x">>, <<"E">>, <<"e">>}

\* the settings an organization has in the configuration file
OrgSettings ==
    {[limit |-> "5", mongo |-> [host |-> "file", port |-> "1"]],
     [output_bucket |-> Bucket, organization |-> <<"o", "l", "d">>]}

\* an organizations dict: at most MaxOrgs entries, distinct keys
OrganizationsDicts ==
    {od \in SeqsUpTo([key : OrgNames, settings : OrgSettings], MaxOrgs) :
        \A i, j \in DOMAIN od : i # j => od[i].key # od[j].key}

Environments == ("prod" :> [limit |-> "2"])

\* the optional keys of the options, each absent or present
OrgOptions == {EmptyDict, ("org" :> <<>>)} \cup {("org" :> <<n>>) : n \in OrgNames}

TaskOptions == {EmptyDict, ("task" :> <<>>), ("task" :> <<"T1">>)}

TasksOptions == {EmptyDict, ("tasks" :> <<>>), ("tasks" :> <<"T2">>)}

OtherOptions ==
    {EmptyDict,
     [limit |-> "10", mongo |-> [host |-> "cli"]],
     [organization |-> <<"e">>],
     [organization |-> <<"m", "x">>, environments |-> ("stage" :> [limit |-> "3"])]}

\* config['values'] after merge_program_options: work_dir always has a value
OptionValues ==
    {MergeItems(MergeItems(MergeItems(MergeItems(("work_dir" :> WorkDir), o), t), ts), x) :
        o \in OrgOptions, t \in TaskOptions, ts \in TasksOptions, x \in OtherOptions}

Configurations ==
    {[values |-> v, environments |-> Environments] : v \in OptionValues}
    \cup
    {[values |-> v, environments |-> Environments, organizations |-> od] :
        v \in OptionValues, od \in OrganizationsDicts}

\* the ids get_config_for_org is asked for
OrgRequests == OrgNames \cup {<<"z">>}

InitConfig ==
    /\ cfg \in Configurations
    /\ cfg0 = cfg
    /\ cfg_pc = "raw"
    /\ org_result = EmptyDict
    /\ MainIdle
    /\ SafeIdIdle

\* update_config(config, program_options)
UpdateConfig ==
    /\ cfg_pc = "raw"
    /\ cfg' = update_config(cfg)
    /\ cfg_pc' = "updated"
    /\ UNCHANGED <<cfg0, org_result, mainVars, sid>>

\* get_config_for_org(config, organization)
GetConfigForOrg ==
    /\ cfg_pc = "updated"
    /\ \E organization \in OrgRequests :
         org_result' = get_config_for_org(cfg, organization)
    /\ cfg_pc' = "resolved"
    /\ UNCHANGED <<cfg, cfg0, mainVars, sid>>

NextConfig == UpdateConfig \/ GetConfigForOrg

SpecConfig == InitConfig /\ [][NextConfig]_vars

(***************************************************************************)
(* Properties of exporter/config.py.                                       *)
(***************************************************************************)
\* the `org` selector of the options
Selector(c) == Range(DictGet(c["values"], "org", <<>>))

\* C3: after update_organizations, every organization of the configuration
\* file whose key equals an entry of the `org` selector up to letter case is
\* kept under its lowercased id; get_config_for_org on an id that is kept
\* returns a dict whose `organization` is that id, and on an id that is not in
\* config['organizations'] it raises instead of returning a dict.
C3_OrganizationSelectionIgnoresCase ==
    /\ (cfg_pc \in {"updated", "resolved"} /\ "organizations" \in DOMAIN cfg0) =>
         \A i \in DOMAIN cfg0["organizations"] :
             \A sel \in Selector(cfg0) :
                 Lower(cfg0["organizations"][i].key) = Lower(sel) =>
                     OdHas(cfg["organizations"], Lower(cfg0["organizations"][i].key))
    /\ cfg_pc = "resolved" =>
         IF "organizations" \in DOMAIN cfg /\ OdHas(cfg["organizations"], org_result.org)
         THEN /\ org_result.status = "ok"
              /\ org_result.map["organization"] = org_result.org
         ELSE org_result.status = "KeyError"

\* the file names an organization in one letter case, the selector in another,
\* and the lowercased id was resolved
C3_Witness ==
    /\ cfg_pc = "resolved"
    /\ org_result.status = "ok"
    /\ "organizations" \in DOMAIN cfg0
    /\ \E i \in DOMAIN cfg0["organizations"] :
         \E sel \in Selector(cfg0) :
             /\ cfg0["organizations"][i].key # sel
             /\ cfg0["organizations"][i].key # Lower(sel)
             /\ Lower(cfg0["organizations"][i].key) = Lower(sel)
             /\ org_result.org = Lower(sel)

BothTaskKeys(c) ==
    /\ DictGet(c["values"], "task", <<>>) # <<>>
    /\ DictGet(c["values"], "tasks", <<>>) # <<>>

\* C4 as claimed: with a non-empty `task` and a non-empty `tasks`, update_tasks
\* leaves the plural value in values['tasks'] and no `task` key; with no `task`
\* key, `tasks` is as it was.
C4_PluralTasksWin ==
    cfg_pc \in {"updated", "resolved"} =>
        /\ "task" \notin DOMAIN cfg["values"]
        /\ BothTaskKeys(cfg0) => cfg["values"]["tasks"] = cfg0["values"]["tasks"]
        /\ "task" \notin DOMAIN cfg0["values"] =>
             /\ ("tasks" \in DOMAIN cfg["values"]) = ("tasks" \in DOMAIN cfg0["values"])
             /\ "tasks" \in DOMAIN cfg0["values"] =>
                  cfg["values"]["tasks"] = cfg0["values"]["tasks"]

\* C4 amended: with a non-empty `task` and a non-empty `tasks`, update_tasks
\* leaves the singular `task` value in values['tasks'] and no `task` key; with
\* no `task` key, `tasks` is as it was.
C4_SingularTaskWins ==
    cfg_pc \in {"updated", "resolved"} =>
        /\ "task" \notin DOMAIN cfg["values"]
        /\ BothTaskKeys(cfg0) => cfg["values"]["tasks"] = cfg0["values"]["task"]
        /\ "task" \notin DOMAIN cfg0["values"] =>
             /\ ("tasks" \in DOMAIN cfg["values"]) = ("tasks" \in DOMAIN cfg0["values"])
             /\ "tasks" \in DOMAIN cfg0["values"] =>
                  cfg["values"]["tasks"] = cfg0["values"]["tasks"]

\* update_tasks ran on options with both keys non-empty and different
C4_Witness ==
    /\ cfg_pc = "updated"
    /\ BothTaskKeys(cfg0)
    /\ cfg0["values"]["task"] # cfg0["values"]["tasks"]

\* the keys get_config_for_org sets itself
Injected == {"organization", "environments"}

\* the organization's own settings in the configuration
SettingsOf(c, organization) == OdGet(c["organizations"], organization)

\* C5 as claimed: the dict get_config_for_org returns has, for every key of
\* config['values'], the value of config['values']; for every key of the
\* organization's settings alone, that value whole; organization = the id asked
\* for; environments = config['environments'].
C5_ValuesWinOnEveryKey ==
    (cfg_pc = "resolved" /\ org_result.status = "ok") =>
        LET r == org_result.map
            settings == SettingsOf(cfg, org_result.org)
        IN  /\ \A k \in DOMAIN cfg["values"] : r[k] = cfg["values"][k]
            /\ \A k \in DOMAIN settings \ DOMAIN cfg["values"] : r[k] = settings[k]
            /\ r["organization"] = org_result.org
            /\ r["environments"] = cfg["environments"]

\* C5 amended: the same for every key other than `organization` and
\* `environments`, which hold the id asked for and config['environments']
\* whatever config['values'] and the organization's settings say; the dict has
\* no other keys.
C5_ValuesWinExceptInjected ==
    (cfg_pc = "resolved" /\ org_result.status = "ok") =>
        LET r == org_result.map
            settings == SettingsOf(cfg, org_result.org)
        IN  /\ \A k \in DOMAIN cfg["values"] \ Injected : r[k] = cfg["values"][k]
            /\ \A k \in (DOMAIN settings \ DOMAIN cfg["values"]) \ Injected :
                 r[k] = settings[k]
            /\ r["organization"] = org_result.org
            /\ r["environments"] = cfg["environments"]
            /\ DOMAIN r = DOMAIN cfg["values"] \cup DOMAIN settings \cup Injected

\* an organization was resolved whose settings and the options disagree on a
\* key holding a nested dict
C5_Witness ==
    /\ cfg_pc = "resolved"
    /\ org_result.status = "ok"
    /\ LET settings == SettingsOf(cfg, org_result.org)
       IN  /\ "mongo" \in DOMAIN settings \cap DOMAIN cfg["values"]
           /\ settings["mongo"] # cfg["values"]["mongo"]
           /\ org_result.map["mongo"] = cfg["values"]["mongo"]

====
